---- MODULE Spec2Model ----
(***************************************************************************)
(* Model of the messaging core of atomic-void                              *)
(*   src/platform/messaging/kafka/kafka.ts   (initKafka, retry loop,       *)
(*                                            shutdownKafka)               *)
(*   src/platform/messaging/kafka/index.ts   (cache variant, lines 1-62;   *)
(*                                            factory variant, 64-152)     *)
(* The broker client library (kafkajs) and the JSON built-ins are the      *)
(* environment: their operations are modelled by what they do, with every  *)
(* outcome the library can produce drawn nondeterministically.             *)
(***************************************************************************)
EXTENDS Integers, Sequences, FiniteSets, TLC

(***************************************************************************)
(* JSON values and text.  A JSON value is a tagged record (each type with  *)
(* its own field); a JSON text is a sequence of one-character strings.     *)
(***************************************************************************)
JNull == [t |-> "null"]
JBool(b) == [t |-> "bool", b |-> b]
JNum(n) == [t |-> "num", n |-> n]
JStr(cs) == [t |-> "str", s |-> cs]
JArr(vs) == [t |-> "arr", a |-> vs]
JObj(ms) == [t |-> "obj", o |-> ms]

Chars(str) ==
  CASE str = "null" -> <<"n", "u", "l", "l">>
    [] str = "true" -> <<"t", "r", "u", "e">>
    [] str = "false" -> <<"f", "a", "l", "s", "e">>

DigitChars == <<"0", "1", "2", "3", "4", "5", "6", "7", "8", "9">>

IsDigit(c) == \E d \in 1..10 : DigitChars[d] = c

DigitVal(c) == (CHOOSE d \in 1..10 : DigitChars[d] = c) - 1

RECURSIVE NatChars(_)
NatChars(n) ==
  IF n < 10 THEN <<DigitChars[n + 1]>>
  ELSE NatChars(n \div 10) \o <<DigitChars[(n % 10) + 1]>>

\* The escape table of JSON strings: the character after a backslash and
\* the character it stands for.  LF and TAB are the control characters.
Escapes ==
  << <<"\"", "\"">>, <<"\\", "\\">>, <<"/", "/">>, <<"n", "LF">>, <<"t", "TAB">> >>

IsControl(c) == c \in {"LF", "TAB"}

QuoteChar(c) ==
  CASE c = "\"" -> <<"\\", "\"">>
    [] c = "\\" -> <<"\\", "\\">>
    [] c = "LF" -> <<"\\", "n">>
    [] c = "TAB" -> <<"\\", "t">>
    [] OTHER -> <<c>>

RECURSIVE QuoteChars(_)
QuoteChars(cs) ==
  IF cs = <<>> THEN <<>> ELSE QuoteChar(Head(cs)) \o QuoteChars(Tail(cs))

Quote(cs) == <<"\"">> \o QuoteChars(cs) \o <<"\"">>

RECURSIVE JSONstringify(_)
RECURSIVE StringifyElems(_)
RECURSIVE StringifyMembers(_)
StringifyElems(vs) ==
  IF vs = <<>> THEN <<>>
  ELSE JSONstringify(Head(vs))
         \o (IF Len(vs) > 1 THEN <<",">> ELSE <<>>)
         \o StringifyElems(Tail(vs))

StringifyMembers(ms) ==
  IF ms = <<>> THEN <<>>
  ELSE Quote(Head(ms).k) \o <<":">> \o JSONstringify(Head(ms).val)
         \o (IF Len(ms) > 1 THEN <<",">> ELSE <<>>)
         \o StringifyMembers(Tail(ms))

\* JSON.stringify on a JSON value: no white space, strings quoted and
\* escaped, integers in decimal.
JSONstringify(x) ==
  CASE x.t = "null" -> Chars("null")
    [] x.t = "bool" -> IF x.b THEN Chars("true") ELSE Chars("false")
    [] x.t = "num" ->
         IF x.n < 0 THEN <<"-">> \o NatChars(0 - x.n) ELSE NatChars(x.n)
    [] x.t = "str" -> Quote(x.s)
    [] x.t = "arr" -> <<"[">> \o StringifyElems(x.a) \o <<"]">>
    [] x.t = "obj" -> <<"{">> \o StringifyMembers(x.o) \o <<"}">>

(***************************************************************************)
(* JSON.parse: a recursive-descent parser of the JSON grammar over the     *)
(* modelled alphabet (integers without fraction or exponent).  A result is *)
(* [ok, val, next]: next is the index after the parsed value.              *)
(***************************************************************************)
ParseFail == [ok |-> FALSE, val |-> JNull, next |-> 0]

ParseOk(v, n) == [ok |-> TRUE, val |-> v, next |-> n]

At(s, i) == IF i >= 1 /\ i <= Len(s) THEN s[i] ELSE "EOF"

RECURSIVE SkipWs(_, _)
SkipWs(s, i) == IF At(s, i) = " " THEN SkipWs(s, i + 1) ELSE i

StartsWith(s, i, w) ==
  /\ i + Len(w) - 1 <= Len(s)
  /\ SubSeq(s, i, i + Len(w) - 1) = w

RECURSIVE ParseDigits(_, _, _)
ParseDigits(s, i, acc) ==
  IF IsDigit(At(s, i)) THEN ParseDigits(s, i + 1, acc * 10 + DigitVal(s[i]))
  ELSE ParseOk(acc, i)

\* int = "0" | digit1-9 digits ; a leading zero ends the number.
ParseNat(s, i) ==
  IF At(s, i) = "0" THEN ParseOk(0, i + 1)
  ELSE IF IsDigit(At(s, i)) THEN ParseDigits(s, i, 0)
  ELSE ParseFail

ParseNumber(s, i) ==
  IF At(s, i) = "-"
  THEN LET r == ParseNat(s, i + 1)
       IN IF r.ok THEN ParseOk(JNum(0 - r.val), r.next) ELSE ParseFail
  ELSE LET r == ParseNat(s, i)
       IN IF r.ok THEN ParseOk(JNum(r.val), r.next) ELSE ParseFail

\* The characters of a string, from the index after the opening quote.
RECURSIVE ParseString(_, _, _)
ParseString(s, i, acc) ==
  LET c == At(s, i)
  IN IF c = "EOF" \/ IsControl(c) THEN ParseFail
     ELSE IF c = "\"" THEN ParseOk(acc, i + 1)
     ELSE IF c = "\\"
          THEN IF \E e \in 1..Len(Escapes) : Escapes[e][1] = At(s, i + 1)
               THEN LET e == CHOOSE e \in 1..Len(Escapes) :
                               Escapes[e][1] = At(s, i + 1)
                    IN ParseString(s, i + 2, Append(acc, Escapes[e][2]))
               ELSE ParseFail
     ELSE ParseString(s, i + 1, Append(acc, c))

\* Object members in insertion order; a repeated key keeps its first
\* position and takes the last value.
PutMember(ms, key, v) ==
  IF \E j \in 1..Len(ms) : ms[j].k = key
  THEN [j \in 1..Len(ms) |-> IF ms[j].k = key THEN [k |-> key, val |-> v] ELSE ms[j]]
  ELSE Append(ms, [k |-> key, val |-> v])

RECURSIVE ParseValue(_, _)
RECURSIVE ParseElems(_, _, _)
RECURSIVE ParseMembers(_, _, _)
ParseElems(s, i, acc) ==
  LET r == ParseValue(s, i)
      j == SkipWs(s, r.next)
  IN IF ~r.ok THEN ParseFail
     ELSE IF At(s, j) = "," THEN ParseElems(s, j + 1, Append(acc, r.val))
     ELSE IF At(s, j) = "]" THEN ParseOk(JArr(Append(acc, r.val)), j + 1)
     ELSE ParseFail

ParseMembers(s, i, acc) ==
  LET j == SkipWs(s, i)
      key == ParseString(s, j + 1, <<>>)
      c == SkipWs(s, key.next)
      r == ParseValue(s, c + 1)
      e == SkipWs(s, r.next)
  IN IF At(s, j) # "\"" THEN ParseFail
     ELSE IF ~key.ok THEN ParseFail
     ELSE IF At(s, c) # ":" THEN ParseFail
     ELSE IF ~r.ok THEN ParseFail
     ELSE IF At(s, e) = "," THEN ParseMembers(s, e + 1, PutMember(acc, key.val, r.val))
     ELSE IF At(s, e) = "}" THEN ParseOk(JObj(PutMember(acc, key.val, r.val)), e + 1)
     ELSE ParseFail

ParseValue(s, i) ==
  LET j == SkipWs(s, i)
      c == At(s, j)
  IN IF StartsWith(s, j, Chars("null")) THEN ParseOk(JNull, j + 4)
     ELSE IF StartsWith(s, j, Chars("true")) THEN ParseOk(JBool(TRUE), j + 4)
     ELSE IF StartsWith(s, j, Chars("false")) THEN ParseOk(JBool(FALSE), j + 5)
     ELSE IF c = "-" \/ IsDigit(c) THEN ParseNumber(s, j)
     ELSE IF c = "\""
          THEN LET r == ParseString(s, j + 1, <<>>)
               IN IF r.ok THEN ParseOk(JStr(r.val), r.next) ELSE ParseFail
     ELSE IF c = "["
          THEN IF At(s, SkipWs(s, j + 1)) = "]"
               THEN ParseOk(JArr(<<>>), SkipWs(s, j + 1) + 1)
               ELSE ParseElems(s, j + 1, <<>>)
     ELSE IF c = "{"
          THEN IF At(s, SkipWs(s, j + 1)) = "}"
               THEN ParseOk(JObj(<<>>), SkipWs(s, j + 1) + 1)
               ELSE ParseMembers(s, j + 1, <<>>)
     ELSE ParseFail

\* JSON.parse(text): [ok |-> TRUE, val |-> value], or ok = FALSE where
\* JSON.parse throws SyntaxError (no value, or text after the value).
JSONparse(s) ==
  LET r == ParseValue(s, 1)
  IN IF r.ok /\ SkipWs(s, r.next) = Len(s) + 1
     THEN [ok |-> TRUE, val |-> r.val]
     ELSE [ok |-> FALSE, val |-> JNull]

(***************************************************************************)
(* Bounds and input sets.                                                  *)
(***************************************************************************)
\* The most transient connect failures the broker produces for one loop.
MaxTransient == 3

\* The KafkaPublisher instances constructed (cache variant), one initKafka
\* call each.
Calls == {"c1", "c2"}

\* The instance constructed first.
FirstCall == "c1"

Topics == {"orders", "news"}

Undefined == <<>>

\* The most messages the broker holds, over all topics.
MaxLog == 3

\* cache.get of a key never set.
Absent == [t |-> "undefined"]

\* Payloads handed to publish: JSON-representable values of every type.
Payloads ==
  { JObj(<< [k |-> <<"i", "d">>, val |-> JNum(10)],
            [k |-> <<"s">>, val |-> JStr(<<"a", "\"", "\\", "LF">>)] >>),
    JArr(<<JNull, JBool(TRUE), JNum(0 - 7), JArr(<<>>), JObj(<<>>)>>) }

\* Message values other producers put on the topics: a null value, a
\* truncated JSON text, a padded JSON text and the text null.
NullValue == [isNull |-> TRUE, value |-> <<>>]

Buffer(cs) == [isNull |-> FALSE, value |-> cs]

ForeignValues ==
  { NullValue,
    Buffer(<<"{", "\"", "a", "\"", ":">>),
    Buffer(<<" ", "[", "1", ",", " ", "0", "]", " ">>),
    Buffer(<<"n", "u", "l", "l">>) }

\* The most shutdown() calls made on one Publisher or Subscriber.
MaxShutdowns == 2

\* The Publisher.create and Subscriber.create calls of the factory variant.
Pubs == {"p1", "p2"}

SubsCreated == {"s1"}

\* The handles kafka.producer() / kafka.consumer() return in call c.
NewProducer(c) == <<c, "producer">>

NewConsumer(c) == <<c, "consumer">>

Handles == {NewProducer(c) : c \in Calls} \cup {NewConsumer(c) : c \in Calls}

\* What a rejected connect() can carry: the class the value is an instance
\* of and its name property (a thrown string has neither).
RetriesExceeded == [cls |-> "KafkaJSNonRetriableError", name |-> "KafkaJSNumberOfRetriesExceeded"]

ConnectErrors ==
  { RetriesExceeded,
    [cls |-> "KafkaJSNonRetriableError", name |-> "DifferentErrorName"],
    [cls |-> "Error", name |-> "Error"],
    [cls |-> "Error", name |-> "KafkaJSNumberOfRetriesExceeded"],
    [cls |-> "string", name |-> "undefined"] }

NoError == [cls |-> "none", name |-> "none"]

\* The broker client's transient failure: its retries are used up.
Transient(e) == e = RetriesExceeded

VARIABLES
  producer,    \* kafka.ts module variable
  consumer,    \* kafka.ts module variable
  conn,        \* broker client: connection state of every handle
  subs,        \* broker client: topics a consumer handle is subscribed to
  running,     \* broker client: consumer handles whose run() has started
  call,        \* the frame of every initKafka call
  loopLog,     \* history of each retry loop: attempts, failures, outcome
  thisProducer,\* KafkaPublisher.producer (cache variant), per instance
  topicLog,    \* broker: the messages of every topic, oldest first
  offset,      \* broker: how many messages of a topic the group consumed
  cache,       \* the NodeCache handed to registerKafka
  emitted,     \* cache.emit(topic) calls so far, per topic
  observed,    \* what a listener read from the cache when last notified, per topic
  escaped,     \* exceptions that left eachMessage
  published,   \* outcome of the latest publish of every KafkaPublisher
  pub,         \* factory variant: every KafkaPublisher.create call and its object
  sub,         \* factory variant: every KafkaSubscriber.create call and its object
  brokerTopics,\* broker: the topics that exist
  shutdownFrame, \* the frame of the shutdownKafka call
  pg,          \* PostgresPersistence: the pool and the operations called on it
  mongo        \* MongoPersistence: isConnected, the client and the operations

brokerVars == <<topicLog, offset>>

cacheVars == <<cache, emitted, observed, escaped>>

kafkaVars ==
  <<producer, consumer, conn, subs, running, call, loopLog, thisProducer,
    published, shutdownFrame>>

factoryVars == <<pub, sub, brokerTopics>>

vars ==
  <<producer, consumer, conn, subs, running, call, loopLog, thisProducer,
    topicLog, offset, cache, emitted, observed, escaped, published, pub, sub,
    brokerTopics, shutdownFrame, pg, mongo>>

\* The variables of the messaging modules.
messagingVars == <<kafkaVars, brokerVars, cacheVars, factoryVars>>

\* The operations that may be in progress at once on one PostgresPersistence
\* and on one MongoPersistence.
PgOps == {"o1", "o2"}

MongoOps == {"m1", "m2"}

\* An operation slot of PostgresPersistence with nothing called.  holds: the
\* operation has a pool client it has not released; delegated: upsert has
\* handed over to create; calls: operations called in this slot so far.
IdlePg ==
  [ kind |-> "none", hasId |-> TRUE, pc |-> "idle", holds |-> FALSE,
    delegated |-> FALSE, result |-> "none", calls |-> 0 ]

\* new PostgresPersistence(...): a pool with no client checked out.
PgInit == [out |-> 0, ops |-> [o \in PgOps |-> IdlePg]]

IdleMongo == [kind |-> "none", pc |-> "idle", result |-> "none", calls |-> 0]

\* new MongoPersistence(...): isConnected = false.  connectCalls,
\* connectFailures: the invocations of client.connect(), and those that
\* rejected, since construction or the last completed client.close().
MongoInit ==
  [ isConnected |-> FALSE, connectCalls |-> 0, connectFailures |-> 0,
    closePc |-> "idle", closeCalls |-> 0,
    ops |-> [m \in MongoOps |-> IdleMongo] ]

Roles == {"producer", "consumer"}

\* adminLog: the calls made on the administrative client, in order.
\* inFlight: the publish calls (by position in payloads) whose send has not
\* settled; acked: the calls whose message the broker appended, in the
\* order of the log; prior: for every call, the calls that had completed
\* when it was made.
\* payloads, sends: the arguments of the publish calls and the requests
\* handed to producer.send, in order.
IdlePub ==
  [ pc |-> "idle", topic |-> "none", producer |-> "new", admin |-> "new",
    error |-> NoError, shutdowns |-> 0, released |-> FALSE,
    lastShutdown |-> "none", adminLog |-> <<>>,
    payloads |-> <<>>, sends |-> <<>>, lastPublish |-> "none",
    inFlight |-> {}, acked |-> <<>>, prior |-> <<>> ]

\* received: the payloads the broker client handed to eachMessage; invoked:
\* the arguments of the callback invocations; inProgress: the invocations
\* (by position in invoked) that have not completed.
IdleSub ==
  [ pc |-> "idle", consumer |-> "new", subscribed |-> FALSE, running |-> FALSE,
    error |-> NoError, shutdowns |-> 0, released |-> FALSE,
    lastShutdown |-> "none", received |-> <<>>, invoked |-> <<>>,
    inProgress |-> {}, groupId |-> "none", ops |-> <<>> ]

\* groupId: the group of the consumer the call created; ops: the calls it
\* made on the broker client, and its return, in order.
IdleCall ==
  [ pc |-> "idle", kafkaObj |-> Undefined, connectorConnected |-> FALSE,
    connectorKafkaFatalError |-> FALSE, target |-> Undefined,
    result |-> Undefined, error |-> NoError, groupId |-> "none",
    ops |-> <<>> ]

\* A call on a handle of the broker client (role: producer or consumer),
\* with the request of a subscribe; "return" is the return of the function.
Op(name, role) == [op |-> name, role |-> role, topics |-> {}, fromBeginning |-> FALSE]

\* Mutant: the consumer reads from the latest offset.
SubscribeRequestLatest(topics) ==
  [op |-> "subscribe", role |-> "consumer", topics |-> topics, fromBeginning |-> FALSE]

\* consumer.subscribe({topics, fromBeginning: true}).
SubscribeRequest(topics) ==
  [op |-> "subscribe", role |-> "consumer", topics |-> topics, fromBeginning |-> TRUE]

\* The KafkaConfig of call c: the constructor of the first instance passes
\* its serviceName as clientId; the other call is made without a clientId.
Config(c) == [clientId |-> IF c = FirstCall THEN <<"svc-a">> ELSE Undefined]

\* Mutant: the default replaces every falsy clientId.
GroupIdOfFalsy(config) ==
  IF config.clientId \in {Undefined, <<"">>} THEN "default-consumer-group"
  ELSE config.clientId[1]

\* groupId: config.clientId ?? "default-consumer-group".
GroupId(config) ==
  IF config.clientId = Undefined THEN "default-consumer-group"
  ELSE config.clientId[1]

\* The SubscriberConfig of create call q.
SubscriberConfig(q) == [clientId |-> "svc-b", groupId |-> "g1", topics |-> Topics]

\* shutdownKafka not called yet.  target: the handle whose disconnect() is
\* awaited; attempted: the handles disconnect() was called on.
IdleShutdown ==
  [pc |-> "idle", error |-> NoError, target |-> Undefined, attempted |-> {}]

NewLoop == [state |-> "idle", tries |-> 0, transient |-> 0, last |-> "none", err |-> NoError]

Init ==
  /\ producer = Undefined
  /\ consumer = Undefined
  /\ conn = [h \in Handles |-> "new"]
  /\ subs = [h \in Handles |-> {}]
  /\ running = [h \in Handles |-> FALSE]
  /\ call = [c \in Calls |-> IdleCall]
  /\ loopLog = [c \in Calls |-> [r \in Roles |-> NewLoop]]
  /\ thisProducer = [c \in Calls |-> Undefined]
  /\ topicLog = [t \in Topics |-> <<>>]
  /\ offset = [t \in Topics |-> 0]
  /\ cache = [t \in Topics |-> Absent]
  /\ emitted = [t \in Topics |-> 0]
  /\ observed = [t \in Topics |-> Absent]
  /\ pg = PgInit
  /\ mongo = MongoInit
  /\ escaped = 0
  /\ published = [c \in Calls |-> "none"]
  /\ pub = [p \in Pubs |-> IdlePub]
  /\ sub = [q \in SubsCreated |-> IdleSub]
  /\ brokerTopics = {}
  /\ shutdownFrame = IdleShutdown

(***************************************************************************)
(* kafka.ts                                                                *)
(***************************************************************************)
\* The catch clause's test: e instanceof KafkaJSNonRetriableError &&
\* e.name === "KafkaJSNumberOfRetriesExceeded".
IsRetriesExceeded(e) ==
  e.cls = "KafkaJSNonRetriableError" /\ e.name = "KafkaJSNumberOfRetriesExceeded"

\* Mutant: the loop tests only the fatal flag.
LoopConditionIgnoresConnected(f) == ~f.connectorKafkaFatalError

\* while (!connectorConnected && !connectorKafkaFatalError)
LoopCondition(f) == ~f.connectorConnected /\ ~f.connectorKafkaFatalError

\* The role of the retry loop call c is in.
LoopRole(c) == IF call[c].pc = "retryProducer" THEN "producer" ELSE "consumer"

\* initKafka up to its first await: both handles are created and stored in
\* the module variables; retryKafkaConnection(producer) is entered.
InitKafkaStart(c) ==
  /\ call[c].pc = "idle"
  /\ producer' = NewProducer(c)
  /\ consumer' = NewConsumer(c)
  /\ call' = [call EXCEPT ![c] = [IdleCall EXCEPT !.pc = "retryProducer",
                                                  !.kafkaObj = NewProducer(c),
                                                  !.groupId = GroupId(Config(c))]]
  /\ loopLog' = [loopLog EXCEPT ![c]["producer"].state = "retrying"]
  /\ UNCHANGED <<pg, mongo, conn, subs, running,
                 thisProducer, published, brokerVars, cacheVars, factoryVars, shutdownFrame>>

\* One iteration of the loop whose kafkaObj.connect() resolves.
ConnectOk(c) ==
  /\ call[c].pc \in {"retryProducer", "retryConsumer"}
  /\ LoopCondition(call[c])
  /\ conn' = [conn EXCEPT ![call[c].kafkaObj] = "connected"]
  /\ call' = [call EXCEPT ![c].connectorConnected = TRUE,
                          ![c].ops = Append(@, Op("connect", LoopRole(c)))]
  /\ loopLog' = [loopLog EXCEPT ![c][LoopRole(c)].tries = @ + 1,
                                ![c][LoopRole(c)].last = "ok"]
  /\ UNCHANGED <<pg, mongo, producer, consumer, subs, running,
                 thisProducer, published, brokerVars, cacheVars, factoryVars, shutdownFrame>>

\* Mutant: the catch clause tests the class only, not the name.
CaughtByClassOnly(f, e) ==
  IF e.cls = "KafkaJSNonRetriableError" THEN f
  ELSE [f EXCEPT !.connectorKafkaFatalError = TRUE]

\* Mutant: the catch clause gives up on every error.
CaughtGivesUp(f, e) == [f EXCEPT !.connectorKafkaFatalError = TRUE]

\* The catch clause: what the frame becomes when connect() rejected with e.
Caught(f, e) ==
  IF IsRetriesExceeded(e) THEN f
  ELSE [f EXCEPT !.connectorKafkaFatalError = TRUE]

\* One iteration of the loop whose kafkaObj.connect() rejects with e.
ConnectFail(c, e) ==
  /\ call[c].pc \in {"retryProducer", "retryConsumer"}
  /\ LoopCondition(call[c])
  /\ Transient(e) => loopLog[c][LoopRole(c)].transient < MaxTransient
  /\ call' = [call EXCEPT ![c] =
       Caught([@ EXCEPT !.ops = Append(@, Op("connect", LoopRole(c)))], e)]
  /\ loopLog' = [loopLog EXCEPT
       ![c][LoopRole(c)].tries = @ + 1,
       ![c][LoopRole(c)].transient = IF Transient(e) THEN @ + 1 ELSE @,
       ![c][LoopRole(c)].last = IF Transient(e) THEN "transient" ELSE "fatal",
       ![c][LoopRole(c)].err = e]
  /\ UNCHANGED <<pg, mongo, producer, consumer, conn, subs, running,
                 thisProducer, published, brokerVars, cacheVars, factoryVars, shutdownFrame>>

\* retryKafkaConnection returns: it has no throw and no return value, so
\* the awaiting initKafka continues whichever flag ended the loop.
\* After the producer's loop the consumer's is entered with the module
\* variable's handle; after the consumer's, consumer.subscribe is called.
LoopReturn(c) ==
  /\ call[c].pc \in {"retryProducer", "retryConsumer"}
  /\ ~LoopCondition(call[c])
  /\ loopLog' = [loopLog EXCEPT
       ![c][LoopRole(c)].state = "returned",
       ![c]["consumer"].state =
          IF call[c].pc = "retryProducer" THEN "retrying"
          ELSE "returned"]
  /\ call' = [call EXCEPT ![c] =
       IF call[c].pc = "retryProducer"
       THEN [@ EXCEPT !.pc = "retryConsumer", !.kafkaObj = consumer,
                      !.connectorConnected = FALSE,
                      !.connectorKafkaFatalError = FALSE]
       ELSE [@ EXCEPT !.pc = "subscribe", !.target = consumer,
                      !.ops = Append(@, SubscribeRequest(Topics))]]
  /\ UNCHANGED <<pg, mongo, producer, consumer, conn, subs, running,
                 thisProducer, published, brokerVars, cacheVars, factoryVars, shutdownFrame>>

\* consumer.subscribe({topics, fromBeginning: true}) completes; on success
\* consumer.run is called on the module variable's handle.
Subscribe(c, ok) ==
  /\ call[c].pc = "subscribe"
  /\ IF ok
     THEN /\ subs' = [subs EXCEPT ![call[c].target] = @ \cup Topics]
          /\ call' = [call EXCEPT ![c].pc = "run", ![c].target = consumer,
                                  ![c].ops = Append(@, Op("run", "consumer"))]
     ELSE /\ subs' = subs
          /\ call' = [call EXCEPT ![c].pc = "rejected",
                                  ![c].error = [cls |-> "Error", name |-> "subscribe"]]
  /\ UNCHANGED <<pg, mongo, producer, consumer, conn, running, loopLog,
                 thisProducer, published, brokerVars, cacheVars, factoryVars, shutdownFrame>>

\* consumer.run({eachMessage}) completes; on success (the broker client
\* joins the group over a connection it opens if need be) initKafka
\* returns the module variable's producer.
Run(c, ok) ==
  /\ call[c].pc = "run"
  /\ IF ok
     THEN /\ running' = [running EXCEPT ![call[c].target] = TRUE]
          /\ conn' = [conn EXCEPT ![call[c].target] = "connected"]
          /\ call' = [call EXCEPT ![c].pc = "resolved", ![c].result = producer,
                                  ![c].ops = Append(@, Op("return", "producer"))]
     ELSE /\ running' = running
          /\ conn' = conn
          /\ call' = [call EXCEPT ![c].pc = "rejected",
                                  ![c].error = [cls |-> "Error", name |-> "run"]]
  /\ UNCHANGED <<pg, mongo, producer, consumer, subs, loopLog,
                 thisProducer, published, brokerVars, cacheVars, factoryVars, shutdownFrame>>

(***************************************************************************)
(* index.ts, cache variant (lines 1-62)                                    *)
(***************************************************************************)
\* The constructor's registerKafka(...).then(producer => this.producer =
\* producer): runs once registerKafka (which returns what initKafka
\* returned) has resolved.
RegisterKafkaThen(c) ==
  /\ call[c].pc = "resolved"
  /\ thisProducer' = [thisProducer EXCEPT ![c] = call[c].result]
  /\ call' = [call EXCEPT ![c].pc = "ready"]
  /\ UNCHANGED <<pg, mongo, producer, consumer, conn, subs, running, loopLog, published,
                 brokerVars, cacheVars, factoryVars, shutdownFrame>>

LogSize == Len(topicLog["orders"]) + Len(topicLog["news"])

\* Mutant: the payload is serialized twice.
SendRequestTwiceEncoded(topic, data) ==
  [topic |-> topic,
   messages |-> <<Buffer(JSONstringify(JStr(JSONstringify(data))))>>]

\* Mutant: the request carries the message twice.
SendRequestDuplicated(topic, data) ==
  [topic |-> topic,
   messages |-> <<Buffer(JSONstringify(data)), Buffer(JSONstringify(data))>>]

\* The argument of producer.send built by publish: one message whose value
\* is JSON.stringify(data).
SendRequest(topic, data) ==
  [topic |-> topic, messages |-> <<Buffer(JSONstringify(data))>>]

\* Broker: the log of req.topic once the request is acknowledged.  The
\* fields sent and to record what was published, and where to.
Appended(log, req, data) ==
  [log EXCEPT ![req.topic] =
     @ \o [i \in 1..Len(req.messages) |->
             [isNull |-> req.messages[i].isNull, value |-> req.messages[i].value,
              sent |-> data, to |-> req.topic]]]

\* publish(name, data) on a constructed instance (the constructor has
\* called registerKafka): await this.producer?.send(...).  With no producer
\* yet the call sends nothing and resolves; a send on a handle that is not
\* connected, or that the broker refuses, rejects.
Publish(c, name, data, ack) ==
  /\ call[c].pc # "idle"
  /\ LogSize < MaxLog
  /\ IF thisProducer[c] = Undefined
     THEN /\ published' = [published EXCEPT ![c] = "resolved"]
          /\ topicLog' = topicLog
     ELSE IF ack /\ conn[thisProducer[c]] = "connected"
     THEN /\ published' = [published EXCEPT ![c] = "resolved"]
          /\ topicLog' = Appended(topicLog, SendRequest(name, data), data)
     ELSE /\ published' = [published EXCEPT ![c] = "rejected"]
          /\ topicLog' = topicLog
  /\ UNCHANGED <<pg, mongo, producer, consumer, conn, subs, running, call, loopLog,
                 thisProducer, offset, cacheVars, factoryVars, shutdownFrame>>

Foreign == [t |-> "foreign"]

\* Another producer's message reaches topic t.
Inject(t, v) ==
  /\ LogSize < MaxLog
  /\ topicLog' = [topicLog EXCEPT ![t] =
       Append(@, [isNull |-> v.isNull, value |-> v.value, sent |-> Foreign, to |-> t])]
  /\ UNCHANGED <<pg, mongo, producer, consumer, conn, subs, running, call, loopLog,
                 thisProducer, published, offset, cacheVars, factoryVars, shutdownFrame>>

\* Mutant: the cache is flushed before the entry is set.
kafkaCallbackFlushes(k, em, topic, partition, message) ==
  LET value == IF message.isNull THEN <<>> ELSE message.value
      parsed == JSONparse(value)
  IN IF parsed.ok
     THEN [cache |-> [u \in DOMAIN k |-> IF u = topic THEN parsed.val ELSE Absent],
           emitted |-> [em EXCEPT ![topic] = @ + 1],
           notified |-> <<parsed.val>>,
           threw |-> FALSE]
     ELSE [cache |-> k, emitted |-> em, notified |-> <<>>, threw |-> FALSE]

\* Mutant: the value is parsed outside the try block.
kafkaCallbackNoCatch(k, em, topic, partition, message) ==
  LET value == IF message.isNull THEN <<>> ELSE message.value
      parsed == JSONparse(value)
  IN IF parsed.ok
     THEN [cache |-> [k EXCEPT ![topic] = parsed.val],
           emitted |-> [em EXCEPT ![topic] = @ + 1],
           notified |-> <<parsed.val>>,
           threw |-> FALSE]
     ELSE [cache |-> k, emitted |-> em, notified |-> <<>>, threw |-> TRUE]

\* Mutant: String(message.value) instead of (message.value ?? "").toString():
\* a null value becomes the text null.
kafkaCallbackStringOfNull(k, em, topic, partition, message) ==
  LET value == IF message.isNull THEN Chars("null") ELSE message.value
      parsed == JSONparse(value)
  IN IF parsed.ok
     THEN [cache |-> [k EXCEPT ![topic] = parsed.val],
           emitted |-> [em EXCEPT ![topic] = @ + 1],
           notified |-> <<parsed.val>>,
           threw |-> FALSE]
     ELSE [cache |-> k, emitted |-> em, notified |-> <<>>, threw |-> FALSE]

\* Mutant: the notification is emitted before the entry is set.
kafkaCallbackEmitsFirst(k, em, topic, partition, message) ==
  LET value == IF message.isNull THEN <<>> ELSE message.value
      parsed == JSONparse(value)
  IN IF parsed.ok
     THEN [cache |-> [k EXCEPT ![topic] = parsed.val],
           emitted |-> [em EXCEPT ![topic] = @ + 1],
           notified |-> <<k[topic]>>,
           threw |-> FALSE]
     ELSE [cache |-> k, emitted |-> em, notified |-> <<>>, threw |-> FALSE]

\* kafkaCallback(topic, partition, message) on cache contents k and emit
\* counts em: the contents and counts it leaves, what the listeners of the
\* topic's notification read from the cache (cache.emit runs them at once,
\* after cache.set), and whether it threw.
kafkaCallback(k, em, topic, partition, message) ==
  LET value == IF message.isNull THEN <<>> ELSE message.value
      parsed == JSONparse(value)
      set == [k EXCEPT ![topic] = parsed.val]
  IN IF parsed.ok
     THEN [cache |-> set,
           emitted |-> [em EXCEPT ![topic] = @ + 1],
           notified |-> <<set[topic]>>,
           threw |-> FALSE]
     ELSE [cache |-> k, emitted |-> em, notified |-> <<>>, threw |-> FALSE]

\* The partitions of a topic (the count registerKafka asks for).
NumPartitions == 3

\* The eachMessage handler initKafka hands to consumer.run: the callback
\* invocations it makes on a payload, and whether it awaits them.
EachMessageOfInitKafka(payload) ==
  [ invoke |-> << [topic |-> payload.topic, partition |-> payload.partition,
                   message |-> payload.message] >>,
    awaits |-> TRUE ]

\* eachMessage of consumer h on the next message of topic t: the payload's
\* topic, partition and message go to the callback, which is awaited.  An
\* exception leaving eachMessage stops the consumer; otherwise the offset
\* advances.
Dispatch(h, t, partition) ==
  /\ running[h]
  /\ conn[h] = "connected"
  /\ t \in subs[h]
  /\ offset[t] < Len(topicLog[t])
  /\ LET payload == [topic |-> t, partition |-> partition,
                     message |-> topicLog[t][offset[t] + 1]]
         a == EachMessageOfInitKafka(payload).invoke[1]
         r == kafkaCallback(cache, emitted, a.topic, a.partition, a.message)
     IN /\ cache' = r.cache
        /\ emitted' = r.emitted
        /\ observed' = IF r.notified = <<>> THEN observed
                       ELSE [observed EXCEPT ![t] = r.notified[1]]
        /\ escaped' = IF r.threw THEN escaped + 1 ELSE escaped
        /\ running' = [running EXCEPT ![h] = ~r.threw]
        /\ offset' = [offset EXCEPT ![t] = IF r.threw THEN @ ELSE @ + 1]
  /\ UNCHANGED <<pg, mongo, producer, consumer, conn, subs, call, loopLog, thisProducer,
                 published, topicLog, factoryVars, shutdownFrame>>

Next ==
  \E c \in {FirstCall} :
    \/ InitKafkaStart(c)
    \/ ConnectOk(c)
    \/ \E e \in ConnectErrors : ConnectFail(c, e)
    \/ LoopReturn(c)
    \/ \E ok \in BOOLEAN : Subscribe(c, ok)
    \/ \E ok \in BOOLEAN : Run(c, ok)
    \/ RegisterKafkaThen(c)

Spec == Init /\ [][Next]_vars

(***************************************************************************)
(* Claims about the retry loop (checked under Spec).                       *)
(***************************************************************************)
LoopFrameIs(c, r) ==
  call[c].pc = (IF r = "producer" THEN "retryProducer" ELSE "retryConsumer")

\* C1: a loop whose first N attempts failed with the transient error and
\* whose next attempt succeeded has made exactly N + 1 attempts, makes no
\* further one and returns; no connect error is surfaced by initKafka.
C1_RetryUntilSuccess ==
  \A c \in Calls, r \in Roles :
    LET l == loopLog[c][r]
    IN /\ l.last = "ok" => l.tries = l.transient + 1
       /\ (l.last = "ok" /\ l.state = "retrying") =>
             /\ LoopFrameIs(c, r)
             /\ ~LoopCondition(call[c])
             /\ ENABLED LoopReturn(c)
       /\ (l.last = "ok" /\ l.state = "returned") =>
             call[c].error \notin ConnectErrors

\* Three transient failures, success at the fourth attempt, and initKafka
\* resolved.
C1_Witness ==
  \E c \in Calls :
    /\ loopLog[c]["producer"].transient = 3
    /\ loopLog[c]["producer"].tries = 4
    /\ loopLog[c]["producer"].last = "ok"
    /\ loopLog[c]["consumer"].last = "ok"
    /\ call[c].pc = "resolved"

\* C2: once a retry loop has ended on a fatal error, the initKafka call it
\* belongs to is rejected with that error.
C2_FatalSurfaced ==
  \A c \in Calls, r \in Roles :
    (loopLog[c][r].last = "fatal" /\ loopLog[c][r].state = "returned") =>
      /\ call[c].pc = "rejected"
      /\ call[c].error = loopLog[c][r].err

\* C3: a loop whose latest attempt failed with a fatal error has made
\* exactly one attempt more than its transient failures, and never makes
\* another.
C3_FatalShortCircuit ==
  /\ [](\A c \in Calls, r \in Roles :
          loopLog[c][r].last = "fatal" =>
            /\ loopLog[c][r].tries = loopLog[c][r].transient + 1
            /\ loopLog[c][r].state = "retrying" => ~LoopCondition(call[c]))
  /\ [][\A c \in Calls, r \in Roles :
          loopLog[c][r].last = "fatal" => loopLog'[c][r].tries = loopLog[c][r].tries]_vars

\* A fatal error of each kind after two transient failures ended a loop.
C3_Witness ==
  \E c \in Calls, r \in Roles :
    /\ loopLog[c][r].last = "fatal"
    /\ loopLog[c][r].err.cls = "KafkaJSNonRetriableError"
    /\ loopLog[c][r].transient = 2
    /\ loopLog[c][r].tries = 3
    /\ loopLog[c][r].state = "returned"

\* C4: a loop that has returned ended on a success or a fatal error; a loop
\* that has only seen transient failures is still in its frame, its
\* condition holds and it cannot return.
C4_NoRetryCeiling ==
  \A c \in Calls, r \in Roles :
    LET l == loopLog[c][r]
    IN /\ l.state = "returned" => l.last \in {"ok", "fatal"}
       /\ (l.state = "retrying" /\ l.last \in {"none", "transient"}) =>
             /\ LoopFrameIs(c, r)
             /\ LoopCondition(call[c])
             /\ ~ENABLED LoopReturn(c)
             /\ ENABLED ConnectOk(c)

\* A loop still retrying after MaxTransient transient failures in a row.
C4_Witness ==
  \E c \in Calls, r \in Roles :
    /\ loopLog[c][r].state = "retrying"
    /\ loopLog[c][r].last = "transient"
    /\ loopLog[c][r].transient = MaxTransient
    /\ loopLog[c][r].tries = MaxTransient

(***************************************************************************)
(* The message path: the state in which call c1 has connected both handles *)
(* at the first attempt and the consumer is running; from there messages   *)
(* are published, arrive from other producers and are dispatched.          *)
(***************************************************************************)
FirstTry == [state |-> "returned", tries |-> 1, transient |-> 0, last |-> "ok", err |-> NoError]

DispatchInit ==
  /\ producer = NewProducer("c1")
  /\ consumer = NewConsumer("c1")
  /\ conn = [h \in Handles |->
       IF h \in {NewProducer("c1"), NewConsumer("c1")} THEN "connected" ELSE "new"]
  /\ subs = [h \in Handles |-> IF h = NewConsumer("c1") THEN Topics ELSE {}]
  /\ running = [h \in Handles |-> h = NewConsumer("c1")]
  /\ call = [c \in Calls |->
       IF c = FirstCall
       THEN [IdleCall EXCEPT !.pc = "ready", !.kafkaObj = NewConsumer("c1"),
                             !.connectorConnected = TRUE,
                             !.target = NewConsumer("c1"),
                             !.result = NewProducer("c1"),
                             !.groupId = GroupId(Config(c)),
                             !.ops = << Op("connect", "producer"),
                                        Op("connect", "consumer"),
                                        SubscribeRequest(Topics),
                                        Op("run", "consumer"),
                                        Op("return", "producer") >>]
       ELSE IdleCall]
  /\ loopLog = [c \in Calls |-> [r \in Roles |-> IF c = FirstCall THEN FirstTry ELSE NewLoop]]
  /\ thisProducer = [c \in Calls |-> IF c = FirstCall THEN NewProducer("c1") ELSE Undefined]
  /\ topicLog = [t \in Topics |-> <<>>]
  /\ offset = [t \in Topics |-> 0]
  /\ cache = [t \in Topics |-> Absent]
  /\ emitted = [t \in Topics |-> 0]
  /\ observed = [t \in Topics |-> Absent]
  /\ pg = PgInit
  /\ mongo = MongoInit
  /\ escaped = 0
  /\ published = [c \in Calls |-> "none"]
  /\ pub = [p \in Pubs |-> IdlePub]
  /\ sub = [q \in SubsCreated |-> IdleSub]
  /\ brokerTopics = {}
  /\ shutdownFrame = IdleShutdown

DispatchNext ==
  \/ \E c \in Calls, name \in Topics, data \in Payloads, ack \in BOOLEAN :
       Publish(c, name, data, ack)
  \/ \E t \in Topics, v \in ForeignValues : Inject(t, v)
  \/ \E h \in Handles, t \in Topics, partition \in 0..(NumPartitions - 1) :
       Dispatch(h, t, partition)

DispatchSpec == DispatchInit /\ [][DispatchNext]_vars

(***************************************************************************)
(* Claims about the message path (checked under DispatchSpec).             *)
(***************************************************************************)
\* A message whose value is a well-formed JSON text.
WellFormed(m) == ~m.isNull /\ JSONparse(m.value).ok

\* The messages of topic t dispatched so far, oldest first.
Dispatched(t) == SubSeq(topicLog[t], 1, offset[t])

RECURSIVE LastDecoded(_)
LastDecoded(ms) ==
  IF ms = <<>> THEN Absent
  ELSE IF WellFormed(ms[Len(ms)]) THEN JSONparse(ms[Len(ms)].value).val
  ELSE LastDecoded(SubSeq(ms, 1, Len(ms) - 1))

TheConsumer == NewConsumer("c1")

\* C6: the cache entry of every topic is the decoded value of the latest
\* well-formed message dispatched on it, and absent if there was none.
C6_LastValueCache ==
  \A t \in Topics : cache[t] = LastDecoded(Dispatched(t))

\* Two well-formed messages with different values were dispatched on one
\* topic, and the cache holds the second.
C6_Witness ==
  \E t \in Topics :
    /\ offset[t] >= 2
    /\ WellFormed(topicLog[t][offset[t] - 1])
    /\ WellFormed(topicLog[t][offset[t]])
    /\ JSONparse(topicLog[t][offset[t] - 1].value).val
         # JSONparse(topicLog[t][offset[t]].value).val
    /\ cache[t] = JSONparse(topicLog[t][offset[t]].value).val

\* C7: no exception leaves eachMessage and the consumer stays connected,
\* subscribed and running; a well-formed message dispatched
\* right after a malformed one is in the cache; and the dispatch of a
\* malformed message changes no cache entry.
C7_MalformedIsolation ==
  /\ [](/\ escaped = 0
        /\ running[TheConsumer]
        /\ conn[TheConsumer] = "connected"
        /\ \A t \in Topics :
             /\ t \in subs[TheConsumer]
             /\ (/\ offset[t] >= 2
                 /\ ~WellFormed(topicLog[t][offset[t] - 1])
                 /\ WellFormed(topicLog[t][offset[t]])) =>
                  cache[t] = JSONparse(topicLog[t][offset[t]].value).val)
  /\ [][\A t \in Topics :
          (/\ offset[t] < Len(topicLog[t])
           /\ ~WellFormed(topicLog[t][offset[t] + 1])
           /\ <<offset, cache>>' # <<offset, cache>>
           /\ \A u \in Topics \ {t} : offset'[u] = offset[u]) =>
            (cache' = cache /\ offset'[t] = offset[t] + 1)]_vars

\* A null-valued message, then a well-formed one on the same topic, both
\* dispatched.
C7_Witness ==
  \E t \in Topics :
    /\ offset[t] >= 2
    /\ topicLog[t][offset[t] - 1].isNull
    /\ WellFormed(topicLog[t][offset[t]])
    /\ cache[t] = JSONparse(topicLog[t][offset[t]].value).val

\* C8: every message a publish put on a topic is on the topic it was
\* published to, the callback decodes it to the published payload, and
\* when it is the latest message dispatched on its topic the cache holds
\* that payload.
C8_PublishRoundTrip ==
  \A t \in Topics : \A i \in 1..Len(topicLog[t]) :
    LET m == topicLog[t][i]
    IN m.sent # Foreign =>
         /\ m.to = t
         /\ kafkaCallback(cache, emitted, t, 0, m).cache[t] = m.sent
         /\ i = offset[t] => cache[t] = m.sent

\* A published payload was delivered and is in the cache.
C8_Witness ==
  \E t \in Topics :
    /\ offset[t] >= 1
    /\ topicLog[t][offset[t]].sent \in Payloads
    /\ cache[t] = topicLog[t][offset[t]].sent
(***************************************************************************)
(* index.ts, factory variant (lines 64-152)                                *)
(***************************************************************************)
\* Broker client: disconnect() on a handle in connection state st.  Only a
\* live connection has anything to release, and only its release can fail.
Disconnect(st, fails) ==
  IF st = "connected"
  THEN IF fails THEN [state |-> "connected", ok |-> FALSE]
       ELSE [state |-> "disconnected", ok |-> TRUE]
  ELSE [state |-> st, ok |-> TRUE]

DisconnectError == [cls |-> "Error", name |-> "disconnect"]

\* KafkaPublisher.create up to its first await: the producer is created
\* and producer.connect() is called.
PublisherCreateStart(p, topic) ==
  /\ pub[p].pc = "idle"
  /\ pub' = [pub EXCEPT ![p].pc = "connect", ![p].topic = topic]
  /\ UNCHANGED <<pg, mongo, kafkaVars, brokerVars, cacheVars, sub, brokerTopics>>

\* await producer.connect() resolves: registerKafka is entered and
\* admin.connect() is called.
PublisherConnectOk(p) ==
  /\ pub[p].pc = "connect"
  /\ pub' = [pub EXCEPT ![p].pc = "adminConnect", ![p].producer = "connected"]
  /\ UNCHANGED <<pg, mongo, kafkaVars, brokerVars, cacheVars, sub, brokerTopics>>

\* await producer.connect() rejects with e: create has no try block, so it
\* rejects with e.
PublisherConnectFail(p, e) ==
  /\ pub[p].pc = "connect"
  /\ pub' = [pub EXCEPT ![p].pc = "rejected", ![p].error = e]
  /\ UNCHANGED <<pg, mongo, kafkaVars, brokerVars, cacheVars, sub, brokerTopics>>

\* A call on the administrative client: its name and, for createTopics,
\* the topic configurations of the request.
AdminCall(op, topics) == [op |-> op, topics |-> topics]

\* registerKafka: await admin.connect().
AdminConnect(p, ok) ==
  /\ pub[p].pc = "adminConnect"
  /\ pub' = [pub EXCEPT ![p] =
       IF ok THEN [@ EXCEPT !.pc = "createTopics", !.admin = "connected",
                           !.adminLog = Append(@, AdminCall("connect", {}))]
       ELSE [@ EXCEPT !.pc = "rejected",
                      !.adminLog = Append(@, AdminCall("connect", {})),
                      !.error = [cls |-> "Error", name |-> "adminConnect"]]]
  /\ UNCHANGED <<pg, mongo, kafkaVars, brokerVars, cacheVars, sub, brokerTopics>>

\* The topic configurations registerKafka asks for.
ReplicationFactor == 3

\* Mutant: the topics are asked for with the broker's default of one
\* partition.
ITopicsOnePartition(topics) ==
  { [topic |-> t, numPartitions |-> 1,
     replicationFactor |-> ReplicationFactor] : t \in topics }

ITopics(topics) ==
  { [topic |-> t, numPartitions |-> NumPartitions,
     replicationFactor |-> ReplicationFactor] : t \in topics }

\* Broker client: admin.createTopics on existing topics ex, the broker
\* refusing the topics in refused for a reason other than their existence.
\* It resolves true when every topic was created, resolves false when the
\* only errors are "topic already exists", and rejects otherwise.
CreateTopicsResult(asked, ex, refused) ==
  LET names == {c.topic : c \in asked}
  IN IF refused \cap names # {} THEN "rejected"
     ELSE IF names \cap ex # {} THEN "false"
     ELSE "true"

\* Mutant: registerKafka throws when createTopics resolves false.
AfterCreateTopicsChecked(f, result) ==
  IF result = "true" THEN [f EXCEPT !.pc = "adminDisconnect"]
  ELSE [f EXCEPT !.pc = "rejected",
                 !.error = [cls |-> "Error", name |-> "topicExists"]]

\* Mutant: registerKafka catches the rejection of createTopics.
AfterCreateTopicsSwallowed(f, result) == [f EXCEPT !.pc = "adminDisconnect"]

\* registerKafka after await admin.createTopics(...): the resolved value is
\* not looked at; a rejection leaves registerKafka, and create, rejected.
AfterCreateTopics(f, result) ==
  IF result = "rejected"
  THEN [f EXCEPT !.pc = "rejected",
                 !.error = [cls |-> "KafkaJSAggregateError", name |-> "createTopics"]]
  ELSE [f EXCEPT !.pc = "adminDisconnect"]

\* registerKafka: await admin.createTopics({topics: iTopics}).
CreateTopics(p, refused) ==
  /\ pub[p].pc = "createTopics"
  /\ refused \cap brokerTopics = {}
  /\ LET asked == ITopics({pub[p].topic})
     IN /\ pub' = [pub EXCEPT ![p] =
             AfterCreateTopics(
               [@ EXCEPT !.adminLog = Append(@, AdminCall("createTopics", asked))],
               CreateTopicsResult(asked, brokerTopics, refused))]
        /\ brokerTopics' = brokerTopics \cup ({c.topic : c \in asked} \ refused)
  /\ UNCHANGED <<pg, mongo, kafkaVars, brokerVars, cacheVars, sub>>

\* registerKafka: await admin.disconnect(); then create returns
\* new KafkaPublisher(config.topic, producer).
AdminDisconnect(p, fails) ==
  /\ pub[p].pc = "adminDisconnect"
  /\ LET d == Disconnect(pub[p].admin, fails)
     IN pub' = [pub EXCEPT ![p] =
          IF d.ok THEN [@ EXCEPT !.pc = "created", !.admin = d.state,
                                 !.adminLog = Append(@, AdminCall("disconnect", {}))]
          ELSE [@ EXCEPT !.pc = "rejected", !.admin = d.state,
                         !.adminLog = Append(@, AdminCall("disconnect", {})),
                         !.error = DisconnectError]]
  /\ UNCHANGED <<pg, mongo, kafkaVars, brokerVars, cacheVars, sub, brokerTopics>>

\* Mutant: shutdown refuses an instance whose handle is not connected.
ShutdownGuarded(st, d) ==
  IF st # "connected" THEN "rejected"
  ELSE IF d.ok THEN "resolved" ELSE "rejected"

\* shutdown(): await handle.disconnect() and nothing else: it resolves or
\* rejects as disconnect() did on the handle in connection state st.
Shutdown(st, d) == IF d.ok THEN "resolved" ELSE "rejected"

\* KafkaPublisher.shutdown().
PublisherShutdown(p, fails) ==
  /\ pub[p].pc = "created"
  /\ pub[p].shutdowns < MaxShutdowns
  /\ LET d == Disconnect(pub[p].producer, fails)
         r == Shutdown(pub[p].producer, d)
     IN pub' = [pub EXCEPT ![p].producer = d.state,
                           ![p].shutdowns = @ + 1,
                           ![p].lastShutdown = r,
                           ![p].released = @ \/ r = "resolved"]
  /\ UNCHANGED <<pg, mongo, kafkaVars, brokerVars, cacheVars, sub, brokerTopics>>

\* KafkaSubscriber.create up to its first await: the consumer is created
\* and consumer.connect() is called.
SubscriberCreateStart(q) ==
  /\ sub[q].pc = "idle"
  /\ sub' = [sub EXCEPT ![q].pc = "connect",
                        ![q].groupId = SubscriberConfig(q).groupId,
                        ![q].ops = Append(@, Op("connect", "consumer"))]
  /\ UNCHANGED <<pg, mongo, kafkaVars, brokerVars, cacheVars, pub, brokerTopics>>

\* await consumer.connect() resolves; consumer.subscribe is called.
SubscriberConnectOk(q) ==
  /\ sub[q].pc = "connect"
  /\ sub' = [sub EXCEPT ![q].pc = "subscribe", ![q].consumer = "connected",
                        ![q].ops = Append(@, SubscribeRequest(SubscriberConfig(q).topics))]
  /\ UNCHANGED <<pg, mongo, kafkaVars, brokerVars, cacheVars, pub, brokerTopics>>

\* await consumer.connect() rejects with e, and so does create.
SubscriberConnectFail(q, e) ==
  /\ sub[q].pc = "connect"
  /\ sub' = [sub EXCEPT ![q].pc = "rejected", ![q].error = e]
  /\ UNCHANGED <<pg, mongo, kafkaVars, brokerVars, cacheVars, pub, brokerTopics>>

\* await consumer.subscribe({topics, fromBeginning: true}).
SubscriberSubscribe(q, ok) ==
  /\ sub[q].pc = "subscribe"
  /\ sub' = [sub EXCEPT ![q] =
       IF ok THEN [@ EXCEPT !.pc = "run", !.subscribed = TRUE,
                           !.ops = Append(@, Op("run", "consumer"))]
       ELSE [@ EXCEPT !.pc = "rejected",
                      !.error = [cls |-> "Error", name |-> "subscribe"]]]
  /\ UNCHANGED <<pg, mongo, kafkaVars, brokerVars, cacheVars, pub, brokerTopics>>

\* await consumer.run({eachMessage}); then create returns
\* new KafkaSubscriber(consumer).
SubscriberRun(q, ok) ==
  /\ sub[q].pc = "run"
  /\ sub' = [sub EXCEPT ![q] =
       IF ok THEN [@ EXCEPT !.pc = "created", !.running = TRUE,
                           !.ops = Append(@, Op("return", "consumer"))]
       ELSE [@ EXCEPT !.pc = "rejected",
                      !.error = [cls |-> "Error", name |-> "run"]]]
  /\ UNCHANGED <<pg, mongo, kafkaVars, brokerVars, cacheVars, pub, brokerTopics>>

\* Mutant: shutdown resolves without disconnecting the consumer.
SubscriberShutdownKeepsConsumer(q, fails) ==
  /\ sub[q].pc = "created"
  /\ sub[q].shutdowns < MaxShutdowns
  /\ sub' = [sub EXCEPT ![q].shutdowns = @ + 1,
                        ![q].lastShutdown = "resolved",
                        ![q].released = TRUE]
  /\ UNCHANGED <<pg, mongo, kafkaVars, brokerVars, cacheVars, pub, brokerTopics>>

\* KafkaSubscriber.shutdown().
SubscriberShutdown(q, fails) ==
  /\ sub[q].pc = "created"
  /\ sub[q].shutdowns < MaxShutdowns
  /\ LET d == Disconnect(sub[q].consumer, fails)
         r == Shutdown(sub[q].consumer, d)
     IN sub' = [sub EXCEPT ![q].consumer = d.state,
                           ![q].running = @ /\ d.state = "connected",
                           ![q].shutdowns = @ + 1,
                           ![q].lastShutdown = r,
                           ![q].released = @ \/ r = "resolved"]
  /\ UNCHANGED <<pg, mongo, kafkaVars, brokerVars, cacheVars, pub, brokerTopics>>

FactoryNext ==
  \/ \E p \in Pubs :
       \/ \E topic \in Topics : PublisherCreateStart(p, topic)
       \/ PublisherConnectOk(p)
       \/ \E e \in ConnectErrors : PublisherConnectFail(p, e)
       \/ \E ok \in BOOLEAN : AdminConnect(p, ok)
       \/ \E refused \in SUBSET Topics : CreateTopics(p, refused)
       \/ \E fails \in BOOLEAN : AdminDisconnect(p, fails)
       \/ \E fails \in BOOLEAN : PublisherShutdown(p, fails)
  \/ \E q \in SubsCreated :
       \/ SubscriberCreateStart(q)
       \/ SubscriberConnectOk(q)
       \/ \E e \in ConnectErrors : SubscriberConnectFail(q, e)
       \/ \E ok \in BOOLEAN : SubscriberSubscribe(q, ok)
       \/ \E ok \in BOOLEAN : SubscriberRun(q, ok)
       \/ \E fails \in BOOLEAN : SubscriberShutdown(q, fails)

FactorySpec == Init /\ [][FactoryNext]_vars

(***************************************************************************)
(* Claims about the factories (checked under FactorySpec).                 *)
(***************************************************************************)
\* C5: no create call is rejected with the transient "number of retries
\* exceeded" error of a connect attempt.
C5_TransientAbsorbed ==
  /\ \A p \in Pubs : pub[p].pc = "rejected" => ~Transient(pub[p].error)
  /\ \A q \in SubsCreated : sub[q].pc = "rejected" => ~Transient(sub[q].error)

\* C9: a shutdown() call on a Publisher or Subscriber on which an earlier
\* shutdown() has completed resolves and changes no connection state.
C9_IdempotentShutdown ==
  [][/\ \A p \in Pubs :
          (pub[p].released /\ pub'[p].shutdowns = pub[p].shutdowns + 1) =>
            /\ pub'[p].lastShutdown = "resolved"
            /\ pub'[p].producer = pub[p].producer
            /\ pub'[p].admin = pub[p].admin
     /\ \A q \in SubsCreated :
          (sub[q].released /\ sub'[q].shutdowns = sub[q].shutdowns + 1) =>
            /\ sub'[q].lastShutdown = "resolved"
            /\ sub'[q].consumer = sub[q].consumer
            /\ sub'[q].running = sub[q].running
            /\ sub'[q].subscribed = sub[q].subscribed]_vars

\* A Publisher and a Subscriber each shut down twice, both calls resolved.
C9_Witness ==
  /\ \E p \in Pubs :
       /\ pub[p].shutdowns = 2
       /\ pub[p].released
       /\ pub[p].lastShutdown = "resolved"
       /\ pub[p].producer = "disconnected"
  /\ \E q \in SubsCreated :
       /\ sub[q].shutdowns = 2
       /\ sub[q].released
       /\ sub[q].lastShutdown = "resolved"
       /\ sub[q].consumer = "disconnected"

\* C10: when registerKafka asks for a topic that already exists, the
\* createTopics step raises nothing and registerKafka goes on to close the
\* administrative connection.
C10_IdempotentProvisioning ==
  [][\A p \in Pubs :
       (/\ pub[p].pc = "createTopics"
        /\ pub[p].topic \in brokerTopics
        /\ pub'[p] # pub[p]) =>
         (pub'[p].pc = "adminDisconnect" /\ pub'[p].error = NoError)]_vars

\* Two create calls for the same topic, both returned a Publisher.
C10_Witness ==
  \E p1 \in Pubs, p2 \in Pubs :
    /\ p1 # p2
    /\ pub[p1].topic = pub[p2].topic
    /\ pub[p1].pc = "created"
    /\ pub[p2].pc = "created"

(***************************************************************************)
(* kafka.ts: shutdownKafka, and several instances sharing the module       *)
(* variables.                                                              *)
(***************************************************************************)
\* Reading .disconnect of a module variable never assigned.
TypeError == [cls |-> "TypeError", name |-> "TypeError"]

\* shutdownKafka up to its first await: producer.disconnect() is called on
\* the handle the module variable holds; with no handle assigned the member
\* access throws and the call rejects.
ShutdownKafkaStart ==
  /\ shutdownFrame.pc = "idle"
  /\ shutdownFrame' =
       IF producer = Undefined
       THEN [shutdownFrame EXCEPT !.pc = "rejected", !.error = TypeError]
       ELSE [shutdownFrame EXCEPT !.pc = "producer", !.target = producer,
                                  !.attempted = {producer}]
  /\ UNCHANGED <<pg, mongo, producer, consumer, conn, subs, running, call, loopLog,
                 thisProducer, published, brokerVars, cacheVars, factoryVars>>

\* await producer.disconnect() completes on handle h; when it resolved,
\* consumer.disconnect() is called on the handle the module variable holds.
ShutdownKafkaProducer(h, fails) ==
  /\ shutdownFrame.pc = "producer"
  /\ h = shutdownFrame.target
  /\ LET d == Disconnect(conn[h], fails)
     IN /\ conn' = [conn EXCEPT ![h] = d.state]
        /\ shutdownFrame' =
             IF d.ok
             THEN [shutdownFrame EXCEPT !.pc = "consumer",
                                        !.target = consumer,
                                        !.attempted = @ \cup {consumer}]
             ELSE [shutdownFrame EXCEPT !.pc = "rejected",
                                        !.error = DisconnectError]
  /\ UNCHANGED <<pg, mongo, producer, consumer, subs, running, call, loopLog,
                 thisProducer, published, brokerVars, cacheVars, factoryVars>>

\* await consumer.disconnect() completes on handle h (a consumer that is
\* disconnected no longer runs); shutdownKafka returns.
ShutdownKafkaConsumer(h, fails) ==
  /\ shutdownFrame.pc = "consumer"
  /\ h = shutdownFrame.target
  /\ LET d == Disconnect(conn[h], fails)
     IN /\ conn' = [conn EXCEPT ![h] = d.state]
        /\ running' = [running EXCEPT ![h] = @ /\ d.state = "connected"]
        /\ shutdownFrame' =
             IF d.ok THEN [shutdownFrame EXCEPT !.pc = "resolved"]
             ELSE [shutdownFrame EXCEPT !.pc = "rejected",
                                        !.error = DisconnectError]
  /\ UNCHANGED <<pg, mongo, producer, consumer, subs, call, loopLog,
                 thisProducer, published, brokerVars, cacheVars, factoryVars>>

\* The most connect failures the broker produces for one loop when several
\* instances start together.
MaxFailures == 1

UnknownError == [cls |-> "Error", name |-> "Error"]

\* One instance: it is constructed, published on, dispatched to and shut
\* down.
InstanceNext ==
  \/ \E c \in {FirstCall} :
       \/ InitKafkaStart(c)
       \/ ConnectOk(c)
       \/ \E e \in {RetriesExceeded, UnknownError} :
            /\ loopLog[c][LoopRole(c)].tries < MaxFailures
            /\ ConnectFail(c, e)
       \/ LoopReturn(c)
       \/ \E ok \in BOOLEAN : Subscribe(c, ok)
       \/ \E ok \in BOOLEAN : Run(c, ok)
       \/ RegisterKafkaThen(c)
       \/ \E name \in Topics, data \in Payloads, ack \in BOOLEAN :
            Publish(c, name, data, ack)
  \/ \E h \in Handles, t \in Topics : Dispatch(h, t, 0)
  \/ ShutdownKafkaStart
  \/ \E h \in Handles, fails \in BOOLEAN : ShutdownKafkaProducer(h, fails)
  \/ \E h \in Handles, fails \in BOOLEAN : ShutdownKafkaConsumer(h, fails)

InstanceSpec == Init /\ [][InstanceNext]_vars

\* Two instances constructed in any order and at any distance; their
\* initKafka calls interleave at every await.
ModuleNext ==
  \E c \in Calls :
    \/ InitKafkaStart(c)
    \/ ConnectOk(c)
    \/ \E e \in {RetriesExceeded, UnknownError} :
         /\ loopLog[c][LoopRole(c)].tries < MaxFailures
         /\ ConnectFail(c, e)
    \/ LoopReturn(c)
    \/ \E ok \in BOOLEAN : Subscribe(c, ok)
    \/ \E ok \in BOOLEAN : Run(c, ok)
    \/ RegisterKafkaThen(c)

ModuleSpec == Init /\ [][ModuleNext]_vars

(***************************************************************************)
(* Claims about one instance (checked under InstanceSpec) and about two    *)
(* instances (checked under ModuleSpec).                                   *)
(***************************************************************************)
\* C11: a publish on an instance whose producer is not there yet completes
\* rejected, and sends nothing.
C11_PublishBeforeConnectFails ==
  [][\A c \in Calls :
       (thisProducer[c] = Undefined /\ published'[c] # published[c]) =>
         (published'[c] = "rejected" /\ topicLog' = topicLog)]_vars

\* C12: shutdownKafka is never rejected for want of a handle: when it is
\* rejected, a disconnect() of a handle it found has failed.
C12_ShutdownToleratesAbsent ==
  shutdownFrame.pc = "rejected" =>
    (shutdownFrame.error = DisconnectError /\ shutdownFrame.attempted # {})

\* C13: every initKafka call connects, subscribes and runs the consumer it
\* created and returns the producer it created, and every instance holds
\* the producer of its own call.
C13_ExclusiveOwnership ==
  \A c \in Calls :
    /\ call[c].pc \in {"retryProducer", "retryConsumer"} =>
         call[c].kafkaObj \in {NewProducer(c), NewConsumer(c)}
    /\ call[c].pc \in {"subscribe", "run"} => call[c].target = NewConsumer(c)
    /\ call[c].pc \in {"resolved", "ready"} => call[c].result = NewProducer(c)
    /\ thisProducer[c] \in {Undefined, NewProducer(c)}

(***************************************************************************)
(* Claims about KafkaPublisher.create and registerKafka (checked under     *)
(* FactorySpec).                                                           *)
(***************************************************************************)
\* The calls of a registerKafka that ran to its end for the topics ts.
ProvisioningCalls(ts) ==
  << AdminCall("connect", {}),
     AdminCall("createTopics",
       {[topic |-> t, numPartitions |-> 3, replicationFactor |-> 3] : t \in ts}),
     AdminCall("disconnect", {}) >>

\* C17: a producer connection is attempted only once the topic has been
\* provisioned (the three administrative calls made, the topic existing),
\* and a Publisher is returned only with the topic provisioned and the
\* producer connected.
C17_ProvisionThenConnect ==
  \A p \in Pubs :
    /\ (pub[p].pc = "connect" \/ pub[p].producer = "connected") =>
         /\ pub[p].adminLog = ProvisioningCalls({pub[p].topic})
         /\ pub[p].topic \in brokerTopics
    /\ pub[p].pc = "created" =>
         /\ pub[p].producer = "connected" \/ pub[p].shutdowns > 0
         /\ pub[p].topic \in brokerTopics

\* C18: a createTopics step that leaves the topic not existing rejects
\* create with the error of that step, and a rejected create stays
\* rejected: it returns no Publisher.
C18_ProvisioningFailureAborts ==
  [][\A p \in Pubs :
       /\ (/\ pub[p].pc = "createTopics"
           /\ pub'[p] # pub[p]
           /\ pub[p].topic \notin brokerTopics') =>
            /\ pub'[p].pc = "rejected"
            /\ pub'[p].error.name = "createTopics"
       /\ pub[p].pc = "rejected" => pub'[p] = pub[p]]_vars

\* A create rejected by createTopics, its topic not existing.
C18_Witness ==
  \E p \in Pubs :
    /\ pub[p].pc = "rejected"
    /\ pub[p].error.name = "createTopics"
    /\ pub[p].topic \notin brokerTopics
    /\ Len(pub[p].adminLog) = 2

\* C19: a registerKafka that returned has made exactly the calls connect,
\* createTopics (one request, every topic asked for with 3 partitions and
\* replication factor 3) and disconnect, in this order, and has left the
\* administrative connection closed.
C19_ProvisioningProtocol ==
  /\ \A p \in Pubs :
       pub[p].pc = "created" =>
         /\ pub[p].adminLog = ProvisioningCalls({pub[p].topic})
         /\ pub[p].admin = "disconnected"
  /\ \A ts \in SUBSET Topics :
       /\ Cardinality(ITopics(ts)) = Cardinality(ts)
       /\ \A c \in ITopics(ts) :
            c.topic \in ts /\ c.numPartitions = 3 /\ c.replicationFactor = 3

\* A create that returned a Publisher for a topic its registerKafka created.
C19_Witness ==
  \E p \in Pubs :
    /\ pub[p].pc = "created"
    /\ Len(pub[p].adminLog) = 3
    /\ pub[p].adminLog[2].op = "createTopics"
    /\ pub[p].admin = "disconnected"
    /\ \A o \in Pubs \ {p} : pub[o].pc = "idle"

(***************************************************************************)
(* index.ts, factory variant: publish and dispatch.  A Publisher created   *)
(* for the topic orders publishes; a Subscriber is created, receives and   *)
(* is shut down.                                                           *)
(***************************************************************************)
\* The most publish calls made on one Publisher.
MaxPublishes == 2

\* KafkaPublisher.publish(data): await this.producer.send({topic:
\* this.topic, messages: [{value: JSON.stringify(data)}]}).  The send is
\* acknowledged, and publish resolves, or it fails (always so on a
\* producer that is not connected), and publish rejects.
PublisherPublish(p, data, ack) ==
  /\ pub[p].pc = "created"
  /\ Len(pub[p].payloads) < MaxPublishes
  /\ LET req == SendRequest(pub[p].topic, data)
         ok == ack /\ pub[p].producer = "connected"
     IN /\ pub' = [pub EXCEPT
             ![p].payloads = Append(@, data),
             ![p].sends = Append(@, req),
             ![p].lastPublish = IF ok THEN "resolved" ELSE "rejected"]
        /\ topicLog' = IF ok THEN Appended(topicLog, req, data) ELSE topicLog
  /\ UNCHANGED <<pg, mongo, kafkaVars, offset, cacheVars, sub, brokerTopics>>

\* What config.callback (a Function) does when invoked: it returns, it
\* returns a promise that is still pending, or it throws.
CallbackKinds == {"returns", "pending", "throws"}

\* Mutant: the handler passes partition 0 whatever the payload's.
EachMessageOfSubscriberPartitionZero(payload) ==
  [ invoke |-> << [topic |-> payload.topic, partition |-> 0,
                   message |-> payload.message] >>,
    awaits |-> FALSE ]

\* The eachMessage handler KafkaSubscriber.create hands to consumer.run:
\* config.callback(topic, partition, message), not awaited.
EachMessageOfSubscriber(payload) ==
  [ invoke |-> << [topic |-> payload.topic, partition |-> payload.partition,
                   message |-> payload.message] >>,
    awaits |-> FALSE ]

\* The broker client hands the next message of topic t to eachMessage of
\* Subscriber q, once the handler's promise for the message before has
\* settled (with an awaiting handler: once its callback has completed).  A
\* throw of the callback leaves eachMessage and stops the consumer;
\* otherwise the offset advances.
SubscriberDispatch(q, t, partition, kind) ==
  /\ sub[q].running
  /\ sub[q].consumer = "connected"
  /\ sub[q].subscribed
  /\ offset[t] < Len(topicLog[t])
  /\ LET payload == [topic |-> t, partition |-> partition,
                     message |-> topicLog[t][offset[t] + 1]]
         h == EachMessageOfSubscriber(payload)
         n == Len(sub[q].invoked)
     IN /\ h.awaits => sub[q].inProgress = {}
        /\ sub' = [sub EXCEPT
             ![q].received = Append(@, payload),
             ![q].invoked = @ \o h.invoke,
             ![q].inProgress =
                IF kind = "pending" THEN @ \cup {n + 1} ELSE @,
             ![q].running = kind # "throws"]
        /\ offset' = [offset EXCEPT ![t] = IF kind = "throws" THEN @ ELSE @ + 1]
  /\ UNCHANGED <<pg, mongo, kafkaVars, topicLog, cacheVars, pub, brokerTopics>>

\* The promise a callback invocation returned settles.
CallbackDone(q, i) ==
  /\ i \in sub[q].inProgress
  /\ sub' = [sub EXCEPT ![q].inProgress = @ \ {i}]
  /\ UNCHANGED <<pg, mongo, kafkaVars, brokerVars, cacheVars, pub, brokerTopics>>

\* The state after KafkaPublisher.create({topic: "orders"}) has returned
\* the Publisher p1, the topic created by its registerKafka.
FlowInit ==
  /\ producer = Undefined
  /\ consumer = Undefined
  /\ conn = [h \in Handles |-> "new"]
  /\ subs = [h \in Handles |-> {}]
  /\ running = [h \in Handles |-> FALSE]
  /\ call = [c \in Calls |-> IdleCall]
  /\ loopLog = [c \in Calls |-> [r \in Roles |-> NewLoop]]
  /\ thisProducer = [c \in Calls |-> Undefined]
  /\ topicLog = [t \in Topics |-> <<>>]
  /\ offset = [t \in Topics |-> 0]
  /\ cache = [t \in Topics |-> Absent]
  /\ emitted = [t \in Topics |-> 0]
  /\ observed = [t \in Topics |-> Absent]
  /\ pg = PgInit
  /\ mongo = MongoInit
  /\ escaped = 0
  /\ published = [c \in Calls |-> "none"]
  /\ pub = [p \in Pubs |->
       IF p = "p1"
       THEN [IdlePub EXCEPT
               !.pc = "created", !.topic = "orders", !.producer = "connected",
               !.admin = "disconnected",
               !.adminLog = << AdminCall("connect", {}),
                               AdminCall("createTopics", ITopics({"orders"})),
                               AdminCall("disconnect", {}) >>]
       ELSE IdlePub]
  /\ sub = [q \in SubsCreated |-> IdleSub]
  /\ brokerTopics = {"orders"}
  /\ shutdownFrame = IdleShutdown

FlowNext ==
  \/ \E p \in Pubs, data \in Payloads, ack \in BOOLEAN :
       PublisherPublish(p, data, ack)
  \/ /\ topicLog["news"] = <<>>
     /\ Inject("news", NullValue)
  \/ \E q \in SubsCreated :
       \/ SubscriberCreateStart(q)
       \/ SubscriberConnectOk(q)
       \/ \E e \in ConnectErrors : SubscriberConnectFail(q, e)
       \/ \E ok \in BOOLEAN : SubscriberSubscribe(q, ok)
       \/ \E ok \in BOOLEAN : SubscriberRun(q, ok)
       \/ \E fails \in BOOLEAN : SubscriberShutdown(q, fails)
       \/ \E t \in Topics, partition \in 0..(NumPartitions - 1),
             kind \in CallbackKinds : SubscriberDispatch(q, t, partition, kind)
       \/ \E i \in sub[q].inProgress : CallbackDone(q, i)

FlowSpec == FlowInit /\ [][FlowNext]_vars

(***************************************************************************)
(* Claims about publish and dispatch of the factory variant (checked under *)
(* FlowSpec).                                                              *)
(***************************************************************************)
\* The connection state of the Subscriber with frame f.
SubscriberState(f) ==
  IF f.pc = "idle" THEN "uninitialized"
  ELSE IF f.consumer = "disconnected" THEN "disconnected"
  ELSE IF f.consumer = "new" THEN "connecting"
  ELSE IF f.pc = "created" THEN "dispatching"
  ELSE "connected"

StateRank(st) ==
  CASE st = "uninitialized" -> 0
    [] st = "connecting" -> 1
    [] st = "connected" -> 2
    [] st = "dispatching" -> 3
    [] st = "disconnected" -> 4

\* C14: the connection state of a Subscriber stays or advances by one
\* stage; once a shutdown() has completed the consumer is disconnected and
\* not running, it stays so, and no message is handed to the callback.
C14_SubscriberOneWay ==
  /\ [](\A q \in SubsCreated :
          sub[q].released =>
            /\ SubscriberState(sub[q]) = "disconnected"
            /\ ~sub[q].running)
  /\ [][\A q \in SubsCreated :
          /\ StateRank(SubscriberState(sub'[q])) \in
               { StateRank(SubscriberState(sub[q])),
                 StateRank(SubscriberState(sub[q])) + 1 }
          /\ sub[q].released =>
               /\ sub'[q].received = sub[q].received
               /\ sub'[q].invoked = sub[q].invoked]_vars

\* A Subscriber that dispatched a message was shut down with a message of
\* its topics still undelivered.
C14_Witness ==
  \E q \in SubsCreated, t \in Topics :
    /\ sub[q].released
    /\ Len(sub[q].invoked) >= 1
    /\ offset[t] < Len(topicLog[t])

\* C15: the callback invocations of a Subscriber are, one for one and in
\* order, the payloads its consumer received, each the topic, a partition
\* and a message of the broker's log; and the handler of initKafka invokes
\* its callback once, with the payload's topic, partition and message.
C15_DispatchFidelity ==
  /\ \A q \in SubsCreated :
       /\ sub[q].invoked = sub[q].received
       /\ \A i \in 1..Len(sub[q].invoked) :
            LET a == sub[q].invoked[i]
            IN /\ a.partition \in 0..(NumPartitions - 1)
               /\ \E k \in 1..Len(topicLog[a.topic]) :
                    a.message = topicLog[a.topic][k]
  /\ \A t \in Topics, partition \in 0..(NumPartitions - 1) :
       \A k \in 1..Len(topicLog[t]) :
         LET payload == [topic |-> t, partition |-> partition,
                         message |-> topicLog[t][k]]
         IN EachMessageOfInitKafka(payload).invoke = <<payload>>

\* Two messages were dispatched, a null-valued one among them, one from
\* partition 2.
C15_Witness ==
  \E q \in SubsCreated :
    /\ Len(sub[q].invoked) >= 2
    /\ \E i \in 1..Len(sub[q].invoked) : sub[q].invoked[i].message.isNull
    /\ \E i \in 1..Len(sub[q].invoked) : sub[q].invoked[i].partition = 2
    /\ \E i \in 1..Len(sub[q].invoked) : sub[q].invoked[i].message.sent \in Payloads

\* C16: at most one callback invocation of a Subscriber is in progress.
C16_SequentialDispatch ==
  \A q \in SubsCreated : Cardinality(sub[q].inProgress) <= 1

\* C20: the requests handed to producer.send are one per publish call, in
\* order, each for the Publisher's topic with one message whose value is
\* the JSON text of the payload; a publish that rejects leaves the broker's
\* log as it was and a publish that resolves has added one message.
C20_OneSendPerPublish ==
  /\ [](\A p \in Pubs :
          /\ Len(pub[p].sends) = Len(pub[p].payloads)
          /\ \A i \in 1..Len(pub[p].sends) :
               /\ pub[p].sends[i].topic = pub[p].topic
               /\ Len(pub[p].sends[i].messages) = 1
               /\ ~pub[p].sends[i].messages[1].isNull
               /\ pub[p].sends[i].messages[1].value
                    = JSONstringify(pub[p].payloads[i]))
  /\ [][\A p \in Pubs :
          Len(pub'[p].payloads) # Len(pub[p].payloads) =>
            /\ Len(pub'[p].sends) = Len(pub[p].sends) + 1
            /\ pub'[p].lastPublish = "rejected" => topicLog' = topicLog
            /\ pub'[p].lastPublish = "resolved" =>
                 /\ Len(topicLog'[pub[p].topic]) = Len(topicLog[pub[p].topic]) + 1
                 /\ \A t \in Topics \ {pub[p].topic} : topicLog'[t] = topicLog[t]]_vars

\* A publish that resolved and then one that rejected: two requests, one
\* message on the topic.
C20_Witness ==
  \E p \in Pubs :
    /\ Len(pub[p].payloads) = 2
    /\ Len(pub[p].sends) = 2
    /\ pub[p].lastPublish = "rejected"
    /\ Len(topicLog[pub[p].topic]) = 1

(***************************************************************************)
(* index.ts: publish, from the call to the settling of the send.  Callers  *)
(* publish at any time, awaiting earlier calls or not.                     *)
(***************************************************************************)
\* The elements of a sequence.
Range(seq) == {seq[i] : i \in 1..Len(seq)}

\* Mutant: publish does not await the send.
PublishOutcomeNotAwaited(f, i) == "resolved"

\* The promise of publish call i: await this.producer.send(...) makes it
\* pending while the send is, resolved when the send was acknowledged and
\* rejected when the send failed.
PublishOutcome(f, i) ==
  IF i \in f.inFlight THEN "pending"
  ELSE IF i \in Range(f.acked) THEN "resolved"
  ELSE "rejected"

\* The publish calls of frame f that have completed.
Completed(f) == {i \in 1..Len(f.payloads) : PublishOutcome(f, i) # "pending"}

\* publish(data) is called: the request is handed to producer.send.
PublisherPublishCall(p, data) ==
  /\ pub[p].pc = "created"
  /\ Len(pub[p].payloads) < MaxPublishes
  /\ pub' = [pub EXCEPT
       ![p].payloads = Append(@, data),
       ![p].sends = Append(@, SendRequest(pub[p].topic, data)),
       ![p].prior = Append(@, Completed(pub[p])),
       ![p].inFlight = @ \cup {Len(pub[p].payloads) + 1}]
  /\ UNCHANGED <<pg, mongo, kafkaVars, brokerVars, cacheVars, sub, brokerTopics>>

\* The send of publish call i settles: the broker appended the message and
\* acknowledged it, or the send failed (always so on a producer that is not
\* connected).  Sends in flight together settle in any order.
PublisherSendSettles(p, i, ack) ==
  /\ i \in pub[p].inFlight
  /\ LET ok == ack /\ pub[p].producer = "connected"
     IN /\ pub' = [pub EXCEPT
             ![p].inFlight = @ \ {i},
             ![p].acked = IF ok THEN Append(@, i) ELSE @,
             ![p].lastPublish = IF ok THEN "resolved" ELSE "rejected"]
        /\ topicLog' = IF ok
                       THEN Appended(topicLog, pub[p].sends[i], pub[p].payloads[i])
                       ELSE topicLog
  /\ UNCHANGED <<pg, mongo, kafkaVars, offset, cacheVars, sub, brokerTopics>>

PublishNext ==
  \E p \in Pubs :
    \/ \E data \in Payloads : PublisherPublishCall(p, data)
    \/ \E i \in 1..MaxPublishes, ack \in BOOLEAN : PublisherSendSettles(p, i, ack)
    \/ \E fails \in BOOLEAN : PublisherShutdown(p, fails)

PublishSpec == FlowInit /\ [][PublishNext]_vars

\* The position of publish call i in the broker's log.
Position(f, i) == CHOOSE k \in 1..Len(f.acked) : f.acked[k] = i

\* C21: a publish call has resolved only if the broker has appended its
\* message; and of two resolved calls, the later made when the earlier had
\* completed, the earlier's message is before the later's on the topic.
C21_ResolvesOnAck ==
  \A p \in Pubs :
    LET f == pub[p]
    IN /\ \A i \in 1..Len(f.payloads) :
            PublishOutcome(f, i) = "resolved" =>
              /\ i \in Range(f.acked)
              /\ topicLog[f.topic][Position(f, i)].sent = f.payloads[i]
       /\ \A j \in 1..Len(f.payloads) : \A i \in f.prior[j] :
            (PublishOutcome(f, i) = "resolved" /\ PublishOutcome(f, j) = "resolved") =>
              Position(f, i) < Position(f, j)

\* Two calls with different payloads, the second made after the first had
\* resolved, both resolved.
C21_Witness ==
  \E p \in Pubs :
    /\ Len(pub[p].payloads) = 2
    /\ pub[p].payloads[1] # pub[p].payloads[2]
    /\ pub[p].prior[2] = {1}
    /\ pub[p].acked = <<1, 2>>
    /\ Len(topicLog[pub[p].topic]) = 2

(***************************************************************************)
(* Claims about the cache of one instance (checked under InstanceSpec).    *)
(***************************************************************************)
\* C22: a step that changes the cache entry of topic t is the dispatch of
\* the next message of t: it changes no other entry, and the handles, the
\* calls, the broker's log and the shutdown are as before.  So no connect,
\* retry, publish or shutdown step changes any entry.
C22_CacheFrame ==
  [][\A t \in Topics :
       cache'[t] # cache[t] =>
         /\ offset'[t] = offset[t] + 1
         /\ running[consumer] /\ t \in subs[consumer]
         /\ \A u \in Topics \ {t} : cache'[u] = cache[u] /\ offset'[u] = offset[u]
         /\ UNCHANGED <<pg, mongo, producer, consumer, conn, subs, call, loopLog,
                        thisProducer, published, topicLog, shutdownFrame>>]_vars

\* Both topics have an entry, the two differ, and the instance has been
\* shut down.
C22_Witness ==
  /\ cache["orders"] # Absent
  /\ cache["news"] # Absent
  /\ cache["orders"] # cache["news"]
  /\ shutdownFrame.pc = "resolved"
  /\ published[FirstCall] = "rejected"

(***************************************************************************)
(* The notifications of the cache (checked under DispatchSpec).            *)
(***************************************************************************)
RECURSIVE WellFormedCount(_)
WellFormedCount(ms) ==
  IF ms = <<>> THEN 0
  ELSE (IF WellFormed(Head(ms)) THEN 1 ELSE 0) + WellFormedCount(Tail(ms))

\* C23: the notifications emitted for a topic are as many as the
\* well-formed messages dispatched on it (one for each, none for a
\* malformed one), and what a listener read from the cache when last
\* notified is the decoded value of the latest of them.
C23_NotificationProtocol ==
  \A t \in Topics :
    /\ emitted[t] = WellFormedCount(Dispatched(t))
    /\ observed[t] = LastDecoded(Dispatched(t))
    /\ emitted[t] = 0 => observed[t] = Absent

\* A well-formed, a malformed and another well-formed message dispatched on
\* one topic: two notifications, the listener read the third's value.
C23_Witness ==
  \E t \in Topics :
    /\ offset[t] = 3
    /\ WellFormed(topicLog[t][1])
    /\ ~WellFormed(topicLog[t][2])
    /\ WellFormed(topicLog[t][3])
    /\ JSONparse(topicLog[t][1].value).val # JSONparse(topicLog[t][3].value).val
    /\ emitted[t] = 2
    /\ observed[t] = JSONparse(topicLog[t][3].value).val

(***************************************************************************)
(* Startup: one initKafka call and one KafkaSubscriber.create call.        *)
(***************************************************************************)
StartupNext ==
  \/ \E c \in {FirstCall} :
       \/ InitKafkaStart(c)
       \/ ConnectOk(c)
       \/ \E e \in {RetriesExceeded, UnknownError} :
            /\ loopLog[c][LoopRole(c)].tries < MaxFailures
            /\ ConnectFail(c, e)
       \/ LoopReturn(c)
       \/ \E ok \in BOOLEAN : Subscribe(c, ok)
       \/ \E ok \in BOOLEAN : Run(c, ok)
  \/ \E q \in SubsCreated :
       \/ SubscriberCreateStart(q)
       \/ SubscriberConnectOk(q)
       \/ \E e \in ConnectErrors : SubscriberConnectFail(q, e)
       \/ \E ok \in BOOLEAN : SubscriberSubscribe(q, ok)
       \/ \E ok \in BOOLEAN : SubscriberRun(q, ok)

StartupSpec == Init /\ [][StartupNext]_vars

\* The stage of startup a call belongs to.
Stage(o) ==
  CASE o.op = "connect" /\ o.role = "producer" -> 1
    [] o.op = "connect" /\ o.role = "consumer" -> 2
    [] o.op = "subscribe" -> 3
    [] o.op = "run" -> 4
    [] o.op = "return" -> 5

\* The calls of ops are in the order of the stages from first on: no call
\* of an earlier stage follows one of a later stage, subscribe, run and
\* return happen once at most and each right after the stage before it had
\* its calls; every subscribe asks for all the topics from the beginning.
InStartupOrder(ops, first, topics) ==
  /\ \A i, j \in 1..Len(ops) : i < j => Stage(ops[i]) <= Stage(ops[j])
  /\ \A i, j \in 1..Len(ops) :
       (i # j /\ Stage(ops[i]) >= 3) => Stage(ops[j]) # Stage(ops[i])
  /\ \A i \in 1..Len(ops) :
       Stage(ops[i]) > first => \E j \in 1..(i - 1) : Stage(ops[j]) = Stage(ops[i]) - 1
  /\ \A i \in 1..Len(ops) :
       ops[i].op = "subscribe" => (ops[i].topics = topics /\ ops[i].fromBeginning)

\* The order of startup in both functions: the producer's loop has returned
\* when the consumer's first attempt is made, and a function that has
\* returned has started run.
StartupOrder ==
  /\ \A c \in Calls :
       /\ InStartupOrder(call[c].ops, 1, Topics)
       /\ loopLog[c]["consumer"].tries > 0 => loopLog[c]["producer"].state = "returned"
       /\ call[c].pc = "resolved" =>
            /\ Stage(call[c].ops[Len(call[c].ops)]) = 5
            /\ running[call[c].target]
  /\ \A q \in SubsCreated :
       /\ InStartupOrder(sub[q].ops, 2, SubscriberConfig(q).topics)
       /\ sub[q].pc = "created" =>
            /\ Stage(sub[q].ops[Len(sub[q].ops)]) = 5
            /\ sub[q].running

\* The KafkaConfig values a caller can pass: no clientId, one, an empty one.
Configs == {[clientId |-> Undefined], [clientId |-> <<"svc-a">>], [clientId |-> <<"">>]}

C25_OnlyConnectedUsed ==
  \A c \in Calls :
    /\ (\E i \in 1..Len(call[c].ops) : call[c].ops[i].op \in {"subscribe", "run"}) =>
         loopLog[c]["consumer"].last = "ok"
    /\ call[c].pc \in {"resolved", "ready"} =>
         /\ loopLog[c]["producer"].last = "ok"
         /\ loopLog[c]["consumer"].last = "ok"

\* C26: once a shutdownKafka that found the handles has finished, resolved
\* or rejected, a disconnect has been attempted on a producer and on a
\* consumer.
C26_ReleasesBoth ==
  (shutdownFrame.pc \in {"resolved", "rejected"} /\ shutdownFrame.attempted # {}) =>
    /\ \E c \in Calls : NewProducer(c) \in shutdownFrame.attempted
    /\ \E c \in Calls : NewConsumer(c) \in shutdownFrame.attempted

\* ---------------------------------------------------------------------
\* Connections left open by a failed create (checked under FactorySpec).

\* C27: whenever KafkaPublisher.create has rejected, neither the producer
\* nor the administrative client it created is left connected.
C27_NoLeakOnFailedPublisherCreate ==
  \A p \in Pubs :
    pub[p].pc = "rejected" =>
      /\ pub[p].producer # "connected"
      /\ pub[p].admin # "connected"

\* C28: every connected consumer belongs to a KafkaSubscriber.create still
\* in progress or to a returned KafkaSubscriber; in particular a create that
\* rejected has not left its consumer connected.
C28_NoLeakOnFailedSubscriberCreate ==
  \A q \in SubsCreated :
    sub[q].consumer = "connected" => sub[q].pc \in {"subscribe", "run", "created"}

\* ---------------------------------------------------------------------
\* PostgresPersistence: every operation takes a client from the pool with
\* pool.connect(), runs one query on it and releases it.

\* Calls per operation slot, and the size of the pool (max in the
\* configuration of the pool).
MaxOperations == 2

PoolMax == 2

\* The operations and, for those that read the id of their argument,
\* whether the argument has one.
PgCalls ==
  ({"create", "query", "healthCheck"} \X {TRUE})
    \cup ({"update", "upsert", "delete", "get"} \X BOOLEAN)

PgCompleted == {"returned", "thrown"}

\* The code an operation frame runs: that of create once upsert, given no
\* id, has returned this.create(data).
PgBody(f) == IF f.delegated THEN "create" ELSE f.kind

\* An operation is called: it runs up to its await of this.pool.connect().
PgCall(o, kind, hasId) ==
  /\ pg.ops[o].pc \in {"idle"} \cup PgCompleted
  /\ pg.ops[o].calls < MaxOperations
  /\ pg' = [pg EXCEPT !.ops[o] =
       [IdlePg EXCEPT !.kind = kind, !.hasId = hasId, !.pc = "connect",
                      !.calls = pg.ops[o].calls + 1]]
  /\ UNCHANGED <<messagingVars, mongo>>

\* pool.connect() settles.  Resolved (a client is free): the operation
\* holds the client and runs to its next await or to its end; every
\* operation but healthCheck is then inside try/finally, whose finally
\* releases the client when the try block is left without a query.
\* Rejected: no client was acquired; healthCheck catches and returns false,
\* the others awaited outside their try block and reject.
PgConnectSettles(o, ok) ==
  /\ pg.ops[o].pc = "connect"
  /\ ok => pg.out < PoolMax
  /\ LET f == pg.ops[o]
         k == PgBody(f)
     IN IF ~ok
        THEN pg' = [pg EXCEPT !.ops[o] =
               IF k = "healthCheck"
               THEN [f EXCEPT !.pc = "returned", !.result = "false"]
               ELSE [f EXCEPT !.pc = "thrown"]]
        ELSE IF f.hasId \/ k \in {"create", "query", "healthCheck"}
        THEN pg' = [pg EXCEPT !.out = @ + 1,
                              !.ops[o] = [f EXCEPT !.pc = "query", !.holds = TRUE]]
        ELSE IF k \in {"update", "delete"}
        THEN \* throw new Error("ID is required ..."), caught, rethrown
             pg' = [pg EXCEPT !.ops[o] = [f EXCEPT !.pc = "thrown"]]
        ELSE IF k = "get"
        THEN pg' = [pg EXCEPT !.ops[o] =
               [f EXCEPT !.pc = "returned", !.result = "null"]]
        ELSE \* upsert: return this.create(data), which calls pool.connect();
             \* finally releases the client of upsert
             pg' = [pg EXCEPT !.ops[o] =
               [f EXCEPT !.pc = "connect", !.delegated = TRUE]]
  /\ UNCHANGED <<messagingVars, mongo>>

\* client.query(...) settles.  healthCheck releases the client after the
\* query inside its try block and has no finally; the others release it in
\* their finally block.
PgQuerySettles(o, ok) ==
  /\ pg.ops[o].pc = "query"
  /\ LET f == pg.ops[o]
     IN IF PgBody(f) = "healthCheck"
        THEN IF ok
             THEN pg' = [pg EXCEPT !.out = @ - 1,
                      !.ops[o] = [f EXCEPT !.pc = "returned", !.holds = FALSE,
                                           !.result = "true"]]
             ELSE pg' = [pg EXCEPT
                      !.ops[o] = [f EXCEPT !.pc = "returned", !.result = "false"]]
        ELSE pg' = [pg EXCEPT !.out = @ - 1,
                      !.ops[o] = [f EXCEPT !.pc = IF ok THEN "returned" ELSE "thrown",
                                           !.holds = FALSE,
                                           !.result = IF ok THEN "value" ELSE "none"]]
  /\ UNCHANGED <<messagingVars, mongo>>

PostgresNext ==
  \/ \E o \in PgOps, c \in PgCalls : PgCall(o, c[1], c[2])
  \/ \E o \in PgOps, ok \in BOOLEAN : PgConnectSettles(o, ok)
  \/ \E o \in PgOps, ok \in BOOLEAN : PgQuerySettles(o, ok)

PostgresSpec == Init /\ [][PostgresNext]_vars

\* C29: an operation that has completed, by returning or by throwing, holds
\* no pool client, and when no operation is in progress no client is
\* checked out.
C29_ClientsReleased ==
  /\ \A o \in PgOps : pg.ops[o].pc \in PgCompleted => ~pg.ops[o].holds
  /\ (\A o \in PgOps : pg.ops[o].pc \in {"idle"} \cup PgCompleted) => pg.out = 0

\* ---------------------------------------------------------------------
\* MongoPersistence: every operation first awaits ensureConnection(), which
\* calls connect() when isConnected is false.

\* connect() itself, an operation on the collection (create stands for
\* update, upsert, delete, get, find, findOne, count, createIndex and
\* dropCollection, which begin the same way) and healthCheck.
MongoKinds == {"connect", "create", "healthCheck"}

MongoCompleted == {"returned", "thrown"}

\* The frame after its connection step succeeded: connect() returns, the
\* others go on to the command they send.
MongoConnected(f) ==
  IF f.kind = "connect" THEN [f EXCEPT !.pc = "returned"]
  ELSE [f EXCEPT !.pc = "command"]

\* A failure inside an operation: healthCheck catches it and returns false,
\* the others rethrow it.
MongoFailed(f) ==
  IF f.kind = "healthCheck" THEN [f EXCEPT !.pc = "returned", !.result = "false"]
  ELSE [f EXCEPT !.pc = "thrown"]

\* An operation is called and runs to its first await.  With isConnected
\* true there is nothing to await in connect()/ensureConnection(); with
\* isConnected false connect() invokes this.client.connect() and awaits it.
MongoCall(m, kind) ==
  /\ mongo.ops[m].pc \in {"idle"} \cup MongoCompleted
  /\ mongo.ops[m].calls < MaxOperations
  /\ LET f == [IdleMongo EXCEPT !.kind = kind, !.calls = mongo.ops[m].calls + 1]
     IN mongo' =
          IF mongo.isConnected
          THEN [mongo EXCEPT !.ops[m] = MongoConnected(f)]
          ELSE [mongo EXCEPT !.connectCalls = @ + 1,
                             !.ops[m] = [f EXCEPT !.pc = "connecting"]]
  /\ UNCHANGED <<messagingVars, pg>>

\* await this.client.connect() settles: on success isConnected = true; on
\* failure connect() logs and rethrows, isConnected is not assigned.
MongoConnectSettles(m, ok) ==
  /\ mongo.ops[m].pc = "connecting"
  /\ mongo' =
       IF ok
       THEN [mongo EXCEPT !.isConnected = TRUE,
                          !.ops[m] = MongoConnected(@)]
       ELSE [mongo EXCEPT !.connectFailures = @ + 1,
                          !.ops[m] = MongoFailed(@)]
  /\ UNCHANGED <<messagingVars, pg>>

\* The command of the operation (insertOne, ping, ...) settles.
MongoCommandSettles(m, ok) ==
  /\ mongo.ops[m].pc = "command"
  /\ LET f == mongo.ops[m]
     IN mongo' = [mongo EXCEPT !.ops[m] =
          IF ok THEN [f EXCEPT !.pc = "returned",
                               !.result = IF f.kind = "healthCheck" THEN "true" ELSE "value"]
          ELSE MongoFailed(f)]
  /\ UNCHANGED <<messagingVars, pg>>

\* close() is called: with isConnected false it returns at once, otherwise
\* it awaits this.client.close().
MongoClose ==
  /\ mongo.closePc = "idle"
  /\ mongo.closeCalls < MaxOperations
  /\ mongo' = [mongo EXCEPT !.closeCalls = @ + 1,
                            !.closePc = IF mongo.isConnected THEN "closing" ELSE "idle"]
  /\ UNCHANGED <<messagingVars, pg>>

\* await this.client.close() settles: on success isConnected = false; a
\* rejection leaves close() before the assignment.
MongoCloseSettles(ok) ==
  /\ mongo.closePc = "closing"
  /\ mongo' =
       IF ok
       THEN [mongo EXCEPT !.closePc = "idle", !.isConnected = FALSE,
                          !.connectCalls = 0, !.connectFailures = 0]
       ELSE [mongo EXCEPT !.closePc = "idle"]
  /\ UNCHANGED <<messagingVars, pg>>

MongoNext ==
  \/ \E m \in MongoOps, kind \in MongoKinds : MongoCall(m, kind)
  \/ \E m \in MongoOps, ok \in BOOLEAN : MongoConnectSettles(m, ok)
  \/ \E m \in MongoOps, ok \in BOOLEAN : MongoCommandSettles(m, ok)
  \/ MongoClose
  \/ \E ok \in BOOLEAN : MongoCloseSettles(ok)

MongoSpec == Init /\ [][MongoNext]_vars

\* C30: between construction, or a completed close, and the next close the
\* client's connect is invoked at most once (attempts that failed not
\* counted), whatever the interleaving of the operations.
C30_SingleConnect == mongo.connectCalls - mongo.connectFailures <= 1

====
